---- MODULE Spec2Model ----
(***************************************************************************)
(* Model of lamblayer's "create layer" workflow (lamblayer/create.py) and   *)
(* of the error classes it raises (lamblayer/exceptions.py).                *)
(*                                                                          *)
(* Text (paths, URLs, config strings) is a sequence of tokens.  A token is  *)
(* either a separator character ("/", ".", "&", "?", "=") or a name that    *)
(* contains no separator, so that splitting and joining act on the text the *)
(* way the Python string methods do.                                        *)
(***************************************************************************)
EXTENDS Integers, Sequences, FiniteSets, TLC

----------------------------------------------------------------------------
(* Bounds of the model *)

\* longest "Packages" list of a packages config
MaxPkgs == 3
\* most "still building" responses the storage service gives before a 200
MaxPolls == 2
\* most files in a source tree
MaxFiles == 2

----------------------------------------------------------------------------
(* Python string and path functions *)

\* s[i:].startswith(sep)
MatchAt(s, sep, i) ==
    /\ i + Len(sep) - 1 <= Len(s)
    /\ SubSeq(s, i, i + Len(sep) - 1) = sep

\* s.find(sep) + 1 (0 when sep does not occur)
Find(s, sep) ==
    IF \E i \in 1..Len(s) : MatchAt(s, sep, i)
    THEN CHOOSE i \in 1..Len(s) :
            /\ MatchAt(s, sep, i)
            /\ \A j \in 1..(i - 1) : ~MatchAt(s, sep, j)
    ELSE 0

\* s.split(sep, maxsplit); maxsplit = -1 splits at every occurrence
RECURSIVE Split(_, _, _)
Split(s, sep, maxsplit) ==
    LET i == Find(s, sep) IN
    IF maxsplit = 0 \/ i = 0
    THEN <<s>>
    ELSE <<SubSeq(s, 1, i - 1)>>
            \o Split(SubSeq(s, i + Len(sep), Len(s)), sep, maxsplit - 1)

\* the variant of join a separator-first bug would give
RECURSIVE JoinLeading(_, _)
JoinLeading(sep, list) ==
    IF list = <<>> THEN <<>>
    ELSE sep \o Head(list) \o JoinLeading(sep, Tail(list))

\* sep.join(list)
RECURSIVE Join(_, _)
Join(sep, list) ==
    IF list = <<>> THEN <<>>
    ELSE IF Len(list) = 1 THEN Head(list)
    ELSE Head(list) \o sep \o Join(sep, Tail(list))

\* str(n) for n >= 0
RECURSIVE IntStr(_)
IntStr(n) ==
    LET d == <<"0", "1", "2", "3", "4", "5", "6", "7", "8", "9">>
    IN  IF n < 10 THEN <<d[n + 1]>> ELSE IntStr(n \div 10) \o <<d[(n % 10) + 1]>>

\* one step of posixpath.join: append component b to path
PathJoin2(path, b) ==
    IF b # <<>> /\ Head(b) = "/" THEN b
    ELSE IF path = <<>> \/ path[Len(path)] = "/" THEN path \o b
    ELSE path \o <<"/">> \o b

\* os.path.join(parts[1], parts[2], ...)
RECURSIVE PathJoin(_)
PathJoin(parts) ==
    IF Len(parts) = 1 THEN parts[1]
    ELSE PathJoin2(PathJoin(SubSeq(parts, 1, Len(parts) - 1)), parts[Len(parts)])

\* the directory entries a path string walks through: its non-empty segments
Segs(path) == SelectSeq(Split(path, <<"/">>, -1), LAMBDA seg : seg # <<>>)

\* p is at or below directory d
IsUnder(d, p) == Len(p) >= Len(d) /\ SubSeq(p, 1, Len(d)) = d

\* p relative to directory d
RelTo(d, p) == SubSeq(p, Len(d) + 1, Len(p))

\* the non-empty prefixes of p: p and the directories above it
Prefixes(p) == {SubSeq(p, 1, n) : n \in 1..Len(p)}

----------------------------------------------------------------------------
(* JSON values of the config files *)

\* the value a missing key reads as (dict.get without default)
None == [t |-> "none", s |-> <<>>, n |-> 0, l |-> <<>>]

JStr(str) == [t |-> "str", s |-> str, n |-> 0, l |-> <<>>]
JInt(i) == [t |-> "int", s |-> <<>>, n |-> i, l |-> <<>>]
JBool(b) == [t |-> "bool", s |-> <<>>, n |-> IF b THEN 1 ELSE 0, l |-> <<>>]
JList(list) == [t |-> "list", s |-> <<>>, n |-> 0, l |-> list]

\* config.get(key, default)
Get(config, key, default) ==
    IF key \in DOMAIN config THEN config[key] ELSE default

\* isinstance(v, str)
IsStr(v) == v.t = "str"

\* isinstance(v, (str, list))
IsStrOrList(v) == v.t \in {"str", "list"}

\* isinstance(v, int); bool is a subclass of int
IsInt(v) == v.t \in {"int", "bool"}

\* f"{v}" of a value that passed isinstance(v, int)
FormatInt(v) ==
    IF v.t = "bool" THEN (IF v.n = 1 THEN <<"True">> ELSE <<"False">>)
    ELSE IntStr(v.n)

----------------------------------------------------------------------------
(* Inputs: arguments, files on disk, responses of the remote services *)

PackagesPath == <<"packages", ".", "json">>
SrcPath == <<"my_layer">>
LayerPath == <<"layer", ".", "json">>

\* wrap directory names: empty or a directory name
WrapNames == {<<>>, <<"python">>, <<"lib">>}

\* files a source tree may hold, as paths relative to the source directory
TreeFiles ==
    { << <<"top", ".", "py">> >>,
      << <<"pkg">>, <<"mod", ".", "py">> >>,
      << <<"pkg">>, <<"sub">>, <<"data">> >> }

SourceTrees == {tree \in SUBSET TreeFiles : Cardinality(tree) <= MaxFiles}

\* the directories of a source tree below its root
TreeDirs(tree) == UNION {Prefixes(f) \ {f} : f \in tree}

LayerKeys == {"LayerName", "Description", "CompatibleRuntimes", "LicenseInfo"}

FullLayerConfig ==
    [k \in LayerKeys |->
        CASE k = "LayerName" -> JStr(<<"my_layer">>)
          [] k = "Description" -> JStr(<<"a layer">>)
          [] k = "CompatibleRuntimes" -> JList(<< <<"python3", ".", "8">> >>)
          [] k = "LicenseInfo" -> JStr(<<"MIT">>)]

\* a JSON object restricted to some of its keys
Restrict(config, keys) == [k \in keys |-> config[k]]

LayerConfigs ==
    { Restrict(FullLayerConfig, keys) :
        keys \in { LayerKeys,
                   LayerKeys \ {"LayerName"},
                   LayerKeys \ {"CompatibleRuntimes"},
                   LayerKeys \ {"Description", "LicenseInfo"},
                   {} } }

PackageNames == {<<"numpy">>, <<"pandas", "=", "=", "1">>}

RECURSIVE SeqsUpTo(_, _)
SeqsUpTo(S, n) ==
    IF n = 0 THEN {<<>>}
    ELSE LET shorter == SeqsUpTo(S, n - 1)
         IN  shorter \cup {Append(q, x) : q \in shorter, x \in S}

PackagesKeys == {"Arch", "Runtime", "Packages", "No_deps"}

\* values of "Packages" that pass the type check
GoodPackages ==
    {JStr(<<"scipy">>)} \cup {JList(list) : list \in SeqsUpTo(PackageNames, MaxPkgs)}

\* values of "No_deps" that pass the type check
GoodNoDeps == {JInt(0), JInt(1), JBool(TRUE)}

PackagesConfig(arch, runtime, pkgs, nodeps) ==
    [k \in PackagesKeys |->
        CASE k = "Arch" -> arch
          [] k = "Runtime" -> runtime
          [] k = "Packages" -> pkgs
          [] k = "No_deps" -> nodeps]

GoodArch == JStr(<<"x86_64">>)
GoodRuntime == JStr(<<"python3", ".", "8">>)

\* configs that pass every type check: each value of "Packages", and each
\* value of "No_deps" (the absent field included)
ValidPackagesConfigs ==
    LET list1 == JList(<< <<"numpy">> >>) IN
    { PackagesConfig(GoodArch, GoodRuntime, p, JInt(0)) : p \in GoodPackages }
    \cup { PackagesConfig(GoodArch, GoodRuntime, list1, n) : n \in GoodNoDeps }
    \cup { Restrict(PackagesConfig(GoodArch, GoodRuntime, p, None), PackagesKeys \ {"No_deps"}) :
            p \in {list1, JList(<< <<"numpy">>, <<"pandas", "=", "=", "1">> >>)} }

\* a valid config with one field replaced by another JSON value (null included)
\* or dropped, and the empty object
PerturbedPackagesConfigs ==
    LET base == PackagesConfig(GoodArch, GoodRuntime, JList(<< <<"numpy">> >>), JInt(0))
    IN  { [base EXCEPT ![k] = v] :
            k \in PackagesKeys, v \in {JInt(7), JList(<< <<"x">> >>), JStr(<<"x">>), None} }
        \cup { Restrict(base, PackagesKeys \ {k}) : k \in PackagesKeys }
        \cup { Restrict(base, {}) }

PackagesConfigs == ValidPackagesConfigs \cup PerturbedPackagesConfigs

\* status codes the build service answers with
BuildStatuses == {199, 200, 299, 300, 404}

\* status codes the storage service answers a poll with
PollStatuses == {200, 202, 404}

\* pre-signed URLs the build service hands out: https://<bucket>.<host>/<key>
PreSignedUrls ==
    { <<"https:", "/", "/", "bkt", ".", "s3", ".", "amazonaws", ".", "com", "/",
        "tmp", "/", "layer", ".", "zip", "?", "sig", "=", "abc">>,
      <<"https:", "/", "/", "zips", ".", "s3", ".", "amazonaws", ".", "com", "/",
        "k">> }

\* Content-Length headers of a 200 poll response; absent, or a byte count
NoHeader == [present |-> FALSE, value |-> 0]
Header(v) == [present |-> TRUE, value |-> v]
ContentLengths == {NoHeader} \cup {Header(v) : v \in {0, 150, 199, 200, 300}}

----------------------------------------------------------------------------
(* Exceptions (lamblayer/exceptions.py); a message is a list of fragments *)

NoError == [kind |-> "none", message |-> <<>>]

\* LamblayerBaseError.__init__: the message is stored as given
LamblayerBaseError(kind, message) == [kind |-> kind, message |-> message]

LamblayerInvalidOptionError(message) ==
    LamblayerBaseError("LamblayerInvalidOptionError", <<message>>)

LamblayerCreateLayerError(message) ==
    LamblayerBaseError("LamblayerCreateLayerError", <<message>>)

\* The assignment to message ends with its first line; the two f-strings
\* that follow it are an expression statement of their own, whose value
\* (name, value, type and valid types) is dropped.
LamblayerParamValidationError(param_name, param_value, valid_type) ==
    LamblayerBaseError("LamblayerParamValidationError",
                       <<"ParamValidationError: Parameter validation failed:\n">>)

\* an exception of the Python runtime or library, not of lamblayer
BuiltinError(kind) == [kind |-> kind, message |-> <<>>]

----------------------------------------------------------------------------
(* State *)

VARIABLES
    pc,               \* position in Create.create
    packages,         \* argument: packages file path, empty when not given;
                      \* rebound to the joined package names once they are parsed
    src,              \* argument: source directory path, empty when not given
    wrap_dir1,        \* argument
    wrap_dir2,        \* argument
    files_read,       \* the config files opened so far
    layer_param,      \* the layer config as loaded from JSON
    layer,            \* layer_name, description, compatible_runtimes, license_info
    src_tree,         \* the files below src
    disk,             \* directories and files created by this process
    archive_file,     \* the content of ziplayer.zip: file and directory entries
    zipfile,          \* the value _create_ziparchive returned
    zip_call,         \* _create_ziparchive: "none", "running", "returned", "raised"
    packages_config,  \* the packages config as loaded from JSON
    pkg,              \* arch, runtime, no_deps after parsing
    http_log,         \* the GET requests sent, in order
    response,         \* the last HTTP response
    pre_signedurl,
    elapsed_time,
    publish_calls,    \* the publish_layer_version calls made, in order
    error             \* the exception that ended the run, if any

vars == <<pc, packages, src, wrap_dir1, wrap_dir2, files_read, layer_param, layer,
          src_tree, disk, archive_file, zipfile, zip_call, packages_config, pkg,
          http_log, response, pre_signedurl, elapsed_time, publish_calls, error>>

args == <<packages, src, wrap_dir1, wrap_dir2>>
layer_vars == <<files_read, layer_param, layer>>
zip_vars == <<src_tree, disk, archive_file, zipfile, zip_call>>
pkg_vars == <<packages_config, pkg>>
http_vars == <<http_log, response, pre_signedurl, elapsed_time>>

EmptyConfig == [k \in {} |-> None]
NoLayer == [layer_name |-> None, description |-> None,
            compatible_runtimes |-> None, license_info |-> None]
NoArchive == [made |-> FALSE, files |-> {}, dirs |-> {}]
NoPkg == [arch |-> <<>>, runtime |-> <<>>, no_deps |-> None]
NoResponse == [status_code |-> 0, text |-> <<>>, content_length |-> NoHeader]

Init ==
    /\ pc = "check_options"
    /\ packages \in {<<>>, PackagesPath}
    /\ src \in {<<>>, SrcPath}
    /\ wrap_dir1 \in WrapNames
    /\ wrap_dir2 \in WrapNames
    /\ files_read = {}
    /\ layer_param = EmptyConfig
    /\ layer = NoLayer
    /\ src_tree = {}
    /\ disk = [dirs |-> {}, files |-> {}]
    /\ archive_file = NoArchive
    /\ zipfile = NoArchive
    /\ zip_call = "none"
    /\ packages_config = EmptyConfig
    /\ pkg = NoPkg
    /\ http_log = <<>>
    /\ response = NoResponse
    /\ pre_signedurl = <<>>
    /\ elapsed_time = 0
    /\ publish_calls = <<>>
    /\ error = NoError

\* an exception leaves create: nothing in this class catches it
Raise(exc) ==
    /\ pc' = "raised"
    /\ error' = exc

----------------------------------------------------------------------------
(* Create.create, option check and layer config *)

\* `packages or src`: what the first test would be with the wrong connective
EitherGiven(p, s) == p # <<>> \/ s # <<>>

\* `if packages and src`
BothGiven(p, s) == p # <<>> /\ s # <<>>

\* `elif not packages and not src`
NeitherGiven(p, s) == p = <<>> /\ s = <<>>

CheckOptions ==
    /\ pc = "check_options"
    /\ IF BothGiven(packages, src)
       THEN Raise(LamblayerInvalidOptionError(
                "--packages and --src cannot be specified at the same time."))
       ELSE IF NeitherGiven(packages, src)
       THEN Raise(LamblayerInvalidOptionError(
                "either --packages or --src must be specified."))
       ELSE pc' = "parse_layer" /\ UNCHANGED error
    /\ UNCHANGED <<args, layer_vars, zip_vars, pkg_vars, http_vars, publish_calls>>

\* _parse_create_layer_json: every field is read with .get, none is checked
ParseCreateLayerJson(layer_path) ==
    /\ pc = "parse_layer"
    /\ \E config \in LayerConfigs :
        /\ files_read' = files_read \cup {layer_path}
        /\ layer_param' = config
        /\ layer' = [layer_name |-> Get(config, "LayerName", None),
                     description |-> Get(config, "Description", None),
                     compatible_runtimes |-> Get(config, "CompatibleRuntimes", None),
                     license_info |-> Get(config, "LicenseInfo", None)]
    /\ pc' = "if_src"
    /\ UNCHANGED <<args, zip_vars, pkg_vars, http_vars, publish_calls, error>>

\* `if src:`
IfSrc ==
    /\ pc = "if_src"
    /\ IF src # <<>>
       THEN pc' = "copytree" /\ zip_call' = "running"
       ELSE pc' = "if_packages" /\ UNCHANGED zip_call
    /\ UNCHANGED <<args, layer_vars, src_tree, disk, archive_file, zipfile,
                   pkg_vars, http_vars, publish_calls, error>>

----------------------------------------------------------------------------
(* Create._create_ziparchive *)

\* hashlib.md5(str(time.time()).encode()).hexdigest(): a name without separators
TempDir == <<"md5_of_timestamp">>

\* os.path.join(temp_dir, "rawlayer")
TempLayerDir == PathJoin(<<TempDir, <<"rawlayer">> >>)

\* the wrap directories joined in the wrong order
CopySrcDirSwapped(w1, w2) == PathJoin(<<TempDir, <<"rawlayer">>, w2, w1>>)

\* os.path.join(temp_dir, "rawlayer", wrap_dir1, wrap_dir2)
CopySrcDir(w1, w2) == PathJoin(<<TempDir, <<"rawlayer">>, w1, w2>>)

\* os.path.join(temp_dir, "ziplayer")
BaseName == PathJoin(<<TempDir, <<"ziplayer">> >>)

\* base_name + ".zip"
OutputPath == BaseName \o <<".", "zip">>

\* some directory or file of the scratch directory is on disk
ScratchExists == \E p \in disk.dirs \cup disk.files : IsUnder(Segs(TempDir), p)

\* an exception leaves _create_ziparchive, and with it create
RaiseFromArchiver(exc) ==
    /\ Raise(exc)
    /\ zip_call' = "raised"

\* shutil.copytree(src, copy_src_dir): lists src, creates the destination
\* directories, then copies file by file
CopyTree ==
    /\ pc = "copytree"
    /\ LET dst == Segs(CopySrcDir(wrap_dir1, wrap_dir2)) IN
       \/ \* src does not exist or cannot be listed: nothing is created
          /\ RaiseFromArchiver(BuiltinError("FileNotFoundError"))
          /\ UNCHANGED <<src_tree, disk>>
       \/ \E tree \in SourceTrees :
            /\ src_tree' = tree
            /\ \/ \* every file is copied
                  /\ disk' = [dirs |-> disk.dirs \cup Prefixes(dst)
                                           \cup {dst \o d : d \in TreeDirs(tree)},
                              files |-> disk.files \cup {dst \o f : f \in tree}]
                  /\ pc' = "make_archive"
                  /\ UNCHANGED <<zip_call, error>>
               \/ \* the copy fails part way (unreadable file, disk full)
                  \E copied \in SUBSET tree :
                    /\ disk' = [dirs |-> disk.dirs \cup Prefixes(dst)
                                             \cup {dst \o d : d \in TreeDirs(copied)},
                                files |-> disk.files \cup {dst \o f : f \in copied}]
                    /\ RaiseFromArchiver(BuiltinError("OSError"))
    /\ UNCHANGED <<args, layer_vars, archive_file, zipfile, pkg_vars, http_vars,
                   publish_calls>>

\* the entries of a zip made of everything below root: files, and the
\* directories other than root itself, by their path relative to root
ZipOf(root) ==
    [made |-> TRUE,
     files |-> {RelTo(root, f) : f \in {g \in disk.files : IsUnder(root, g)}},
     dirs |-> {RelTo(root, d) : d \in {g \in disk.dirs : IsUnder(root, g) /\ g # root}}]

\* shutil.make_archive(base_name, "zip", root_dir=temp_layer_dir)
MakeArchive ==
    /\ pc = "make_archive"
    /\ LET root == Segs(TempLayerDir) IN
       \/ /\ root \in disk.dirs
          /\ archive_file' = ZipOf(root)
          /\ disk' = [disk EXCEPT !.files = @ \cup {Segs(OutputPath)}]
          /\ pc' = "read_zip"
          /\ UNCHANGED <<zip_call, error>>
       \/ \* the zip cannot be written (disk full), or root_dir is missing
          /\ RaiseFromArchiver(BuiltinError("OSError"))
          /\ UNCHANGED <<archive_file, disk>>
    /\ UNCHANGED <<args, layer_vars, src_tree, zipfile, pkg_vars, http_vars,
                   publish_calls>>

\* with open(output_path, "rb") as f: zipfile = f.read()
ReadZip ==
    /\ pc = "read_zip"
    /\ \/ /\ Segs(OutputPath) \in disk.files
          /\ zipfile' = archive_file
          /\ pc' = "rmtree"
          /\ UNCHANGED <<zip_call, error>>
       \/ /\ RaiseFromArchiver(BuiltinError("OSError"))
          /\ UNCHANGED zipfile
    /\ UNCHANGED <<args, layer_vars, src_tree, disk, archive_file, pkg_vars,
                   http_vars, publish_calls>>

\* shutil.rmtree(temp_dir), the last statement before the return
RmTree ==
    /\ pc = "rmtree"
    /\ disk' = [dirs |-> {p \in disk.dirs : ~IsUnder(Segs(TempDir), p)},
                files |-> {p \in disk.files : ~IsUnder(Segs(TempDir), p)}]
    /\ zip_call' = "returned"
    /\ pc' = "publish_src"
    /\ UNCHANGED <<args, layer_vars, src_tree, archive_file, zipfile, pkg_vars,
                   http_vars, publish_calls, error>>

----------------------------------------------------------------------------
(* Create.create, the two publish paths *)

\* the keyword arguments of one publish_layer_version call
PublishCall(content) ==
    [LayerName |-> layer.layer_name,
     Description |-> layer.description,
     Content |-> content,
     CompatibleRuntimes |-> layer.compatible_runtimes,
     LicenseInfo |-> layer.license_info]

\* Content={"ZipFile": zipfile}
ZipContent(zip) ==
    [keys |-> {"ZipFile"}, ZipFile |-> zip, S3Bucket |-> <<>>, S3Key |-> <<>>]

\* Content={"S3Bucket": s3_bucket, "S3Key": s3_key}
S3Content(bucket, key) ==
    [keys |-> {"S3Bucket", "S3Key"}, ZipFile |-> NoArchive, S3Bucket |-> bucket, S3Key |-> key]

\* publish_layer_version with the inline zip
PublishSrc ==
    /\ pc = "publish_src"
    /\ publish_calls' = Append(publish_calls, PublishCall(ZipContent(zipfile)))
    /\ pc' = "if_packages"
    /\ UNCHANGED <<args, layer_vars, zip_vars, pkg_vars, http_vars, error>>

\* `if packages:`
IfPackages ==
    /\ pc = "if_packages"
    /\ pc' = IF packages # <<>> THEN "parse_packages" ELSE "done"
    /\ UNCHANGED <<args, layer_vars, zip_vars, pkg_vars, http_vars, publish_calls, error>>

\* the first field of a packages config that fails its type check, in the
\* order of the checks; "" when all pass
FirstInvalid(config) ==
    IF ~IsStr(Get(config, "Arch", None)) THEN "Arch"
    ELSE IF ~IsStr(Get(config, "Runtime", None)) THEN "Runtime"
    ELSE IF ~IsStrOrList(Get(config, "Packages", None)) THEN "Packages"
    ELSE IF ~IsInt(Get(config, "No_deps", JInt(0))) THEN "No_deps"
    ELSE ""

\* the expected type named in the raise of each check
ValidType(field) ==
    CASE field = "Arch" -> "str"
      [] field = "Runtime" -> "str"
      [] field = "Packages" -> "(str, list)"
      [] field = "No_deps" -> "int"

\* the default of .get("No_deps", 0)
NoDepsOf(config) == Get(config, "No_deps", JInt(0))

\* the packages string: a list is joined with "&", a string is kept
PackagesOf(config) ==
    LET p == Get(config, "Packages", None)
    IN  IF p.t = "list" THEN Join(<<"&">>, p.l) ELSE p.s

\* arch, runtime, packages, no_deps = self._parse_packages_json(packages)
ParsePackagesJson ==
    /\ pc = "parse_packages"
    /\ \E config \in PackagesConfigs :
        /\ files_read' = files_read \cup {packages}
        /\ packages_config' = config
        /\ LET bad == FirstInvalid(config) IN
           IF bad # ""
           THEN /\ Raise(LamblayerParamValidationError(
                        bad, Get(config, bad, None), ValidType(bad)))
                /\ UNCHANGED <<packages, pkg>>
           ELSE /\ pkg' = [arch |-> config["Arch"].s,
                           runtime |-> config["Runtime"].s,
                           no_deps |-> NoDepsOf(config)]
                /\ packages' = PackagesOf(config)
                /\ pc' = "get_pre_signedurl"
                /\ UNCHANGED error
    /\ UNCHANGED <<src, wrap_dir1, wrap_dir2, layer_param, layer, zip_vars,
                   http_vars, publish_calls>>

\* f"https://layerzip.higuchi.work/{arch}/{runtime}/{packages}?no-deps={no_deps}"
BuildUrl(arch, runtime, pkgs, no_deps) ==
    <<"https:", "/", "/", "layerzip", ".", "higuchi", ".", "work", "/">>
        \o arch \o <<"/">> \o runtime \o <<"/">> \o pkgs
        \o <<"?", "no-deps", "=">> \o FormatInt(no_deps)

\* only 200 accepted as success of the build request
BuildOkOnly200(status_code) == status_code = 200

\* 200 <= response.status_code < 300
BuildOk(status_code) == 200 <= status_code /\ status_code < 300

\* get pre_signedurl
GetPreSignedUrl ==
    /\ pc = "get_pre_signedurl"
    /\ http_log' = Append(http_log, BuildUrl(pkg.arch, pkg.runtime, packages, pkg.no_deps))
    /\ \E status_code \in BuildStatuses, text \in PreSignedUrls :
        /\ response' = [status_code |-> status_code, text |-> text,
                        content_length |-> NoHeader]
        /\ IF BuildOk(status_code)
           THEN /\ pre_signedurl' = text
                /\ pc' = "poll"
                /\ UNCHANGED error
           ELSE /\ Raise(LamblayerCreateLayerError(
                        "Something went wrong..., Please contact with higuchi@adansons.co.jp"))
                /\ UNCHANGED pre_signedurl
    /\ UNCHANGED <<args, layer_vars, zip_vars, pkg_vars, elapsed_time, publish_calls>>

\* response.status_code == 200
PollDone(status_code) == status_code = 200

\* one iteration of `while not is_download_completed`
Poll ==
    /\ pc = "poll"
    /\ http_log' = Append(http_log, pre_signedurl)
    /\ \E status_code \in PollStatuses, content_length \in ContentLengths :
        \* the headers of a response other than 200 are never read
        /\ status_code # 200 => content_length = NoHeader
        /\ response' = [status_code |-> status_code, text |-> <<>>,
                        content_length |-> content_length]
        /\ IF PollDone(status_code)
           THEN /\ pc' = "verify"
                /\ UNCHANGED elapsed_time
           ELSE /\ elapsed_time < 5 * MaxPolls
                /\ elapsed_time' = elapsed_time + 5
                /\ pc' = "poll"
    /\ UNCHANGED <<args, layer_vars, zip_vars, pkg_vars, pre_signedurl, publish_calls, error>>

\* int(content_length) < 200
TooSmall(length) == length < 200

\* verify put correctly; int(None) is a TypeError
Verify ==
    /\ pc = "verify"
    /\ LET content_length == response.content_length IN
       IF ~content_length.present
       THEN Raise(BuiltinError("TypeError"))
       ELSE IF TooSmall(content_length.value)
       THEN Raise(LamblayerCreateLayerError(
                "Something went wrong..., Please check the pakcage name and version again."))
       ELSE pc' = "publish_packages" /\ UNCHANGED error
    /\ UNCHANGED <<args, layer_vars, zip_vars, pkg_vars, http_vars, publish_calls>>

Last(seq) == seq[Len(seq)]

\* the host taken up to the first "/" instead of the first "."
S3BucketWholeHost(url) == Last(Split(Split(url, <<"/">>, 3)[3], <<"/", "/">>, -1))

\* pre_signedurl.split(".")[0].split("//")[-1]
S3Bucket(url) == Last(Split(Split(url, <<".">>, -1)[1], <<"/", "/">>, -1))

\* pre_signedurl.split("/", 3)[-1]
S3Key(url) == Last(Split(url, <<"/">>, 3))

\* publish_layer_version with the bucket and key of the pre-signed URL
PublishPackages ==
    /\ pc = "publish_packages"
    /\ publish_calls' = Append(publish_calls,
            PublishCall(S3Content(S3Bucket(pre_signedurl), S3Key(pre_signedurl))))
    /\ pc' = "done"
    /\ UNCHANGED <<args, layer_vars, zip_vars, pkg_vars, http_vars, error>>

----------------------------------------------------------------------------

Next ==
    \/ CheckOptions
    \/ ParseCreateLayerJson(LayerPath)
    \/ IfSrc
    \/ CopyTree
    \/ MakeArchive
    \/ ReadZip
    \/ RmTree
    \/ PublishSrc
    \/ IfPackages
    \/ ParsePackagesJson
    \/ GetPreSignedUrl
    \/ Poll
    \/ Verify
    \/ PublishPackages

Spec == Init /\ [][Next]_vars

----------------------------------------------------------------------------
(* Properties *)

\* nothing of the workflow has happened yet
NoEffects ==
    /\ files_read = {}
    /\ zip_call = "none"
    /\ disk = [dirs |-> {}, files |-> {}]
    /\ http_log = <<>>
    /\ publish_calls = <<>>

\* C1: create called with both packages and src set, or with neither,
\* raises LamblayerInvalidOptionError as its first step, before any config
\* file is read, any scratch directory is created, any HTTP request is sent
\* or publish_layer_version is called; with exactly one of the two set no
\* LamblayerInvalidOptionError is ever raised.
C1_InvalidOptionFirst ==
    /\ [][pc = "check_options" =>
            IF (packages # <<>>) = (src # <<>>)
            THEN /\ pc' = "raised"
                 /\ error'.kind = "LamblayerInvalidOptionError"
                 /\ NoEffects'
            ELSE /\ pc' # "raised"
                 /\ error' = NoError]_vars
    /\ [](error.kind = "LamblayerInvalidOptionError" =>
            /\ pc = "raised"
            /\ (packages # <<>>) = (src # <<>>)
            /\ NoEffects)
    /\ [][pc = "raised" => FALSE]_vars

C1_Witness ==
    /\ pc = "raised"
    /\ packages # <<>> /\ src # <<>>
    /\ error.kind = "LamblayerInvalidOptionError"

\* C2: whenever a call of _create_ziparchive has ended, by a return or by
\* an exception of the copy, the zip creation or the read, the scratch
\* directory it created is gone.
C2_ScratchRemovedOnEveryExit ==
    zip_call \in {"returned", "raised"} => ~ScratchExists

\* C3: a build response outside 200..299 raises LamblayerCreateLayerError
\* and ends the run: the build request was the only request (no poll, no
\* retry) and nothing is published; a response in 200..299 makes its body
\* the pre-signed URL and starts the polling.
C3_BuildFailureStops ==
    /\ [][pc = "get_pre_signedurl" =>
            /\ Len(http_log') = 1
            /\ IF response'.status_code \in 200..299
               THEN /\ pre_signedurl' = response'.text
                    /\ pc' = "poll"
                    /\ error' = NoError
               ELSE /\ pc' = "raised"
                    /\ error'.kind = "LamblayerCreateLayerError"
                    /\ publish_calls' = <<>>]_vars
    /\ [][pc = "raised" => FALSE]_vars
    /\ [](pc = "poll" => response.status_code \in 200..299 \/ Len(http_log) > 1)

C3_Witness ==
    /\ pc = "raised"
    /\ response.status_code = 404
    /\ error.kind = "LamblayerCreateLayerError"
    /\ Len(http_log) = 1

\* the run is past the check of a 200 poll response
PastVerify ==
    /\ Len(http_log) >= 2
    /\ response.status_code = 200
    /\ pc \in {"raised", "publish_packages", "done"}

\* C4: every 200 poll response leads to one of two outcomes, decided by its
\* Content-Length: below 200, LamblayerCreateLayerError and no publish; 200
\* or more, exactly one publish_layer_version call.
C4_ContentLengthDecides ==
    PastVerify =>
        \/ /\ response.content_length.present
           /\ response.content_length.value < 200
           /\ pc = "raised"
           /\ error.kind = "LamblayerCreateLayerError"
           /\ publish_calls = <<>>
        \/ /\ response.content_length.present
           /\ response.content_length.value >= 200
           /\ pc \in {"publish_packages", "done"}
           /\ Len(publish_calls) = (IF pc = "done" THEN 1 ELSE 0)

\* text occurs among the fragments of message
Mentions(message, text) == \E i \in 1..Len(message) : message[i] = text

\* C5: a packages config whose "Arch", "Runtime", "Packages" or "No_deps"
\* fails its type check raises LamblayerParamValidationError before any HTTP
\* request, with a message that names the offending field and the expected
\* type.
C5_ValidationErrorNamesField ==
    \A field \in PackagesKeys :
        (PackagesPath \in files_read /\ FirstInvalid(packages_config) = field) =>
            /\ pc = "raised"
            /\ error.kind = "LamblayerParamValidationError"
            /\ http_log = <<>>
            /\ Mentions(error.message, field)
            /\ Mentions(error.message, ValidType(field))

\* C6: a layer config without "LayerName" or "CompatibleRuntimes" ends the
\* run with a validation error before any archive is created, any HTTP
\* request is sent or publish_layer_version is called.
C6_LayerConfigRequiredFields ==
    (/\ LayerPath \in files_read
     /\ \/ "LayerName" \notin DOMAIN layer_param
        \/ "CompatibleRuntimes" \notin DOMAIN layer_param) =>
        /\ pc = "raised"
        /\ error.kind = "LamblayerParamValidationError"
        /\ zip_call = "none"
        /\ http_log = <<>>
        /\ publish_calls = <<>>

\* the tokens of a text
Range(text) == {text[i] : i \in 1..Len(text)}

\* url is https://<bucket>.<rest of host>/<key>
MadeOf(url, bucket, key) ==
    /\ Range(bucket) \cap {".", "/"} = {}
    /\ \E i \in 1..Len(url), j \in 0..Len(url) :
        LET rest == SubSeq(url, i, j) IN
        /\ "/" \notin Range(rest)
        /\ url = <<"https:", "/", "/">> \o bucket \o <<".">> \o rest \o <<"/">> \o key

\* the call passes the four values of the layer config as they were read
PassesLayerConfig(call) ==
    /\ call.LayerName = Get(layer_param, "LayerName", None)
    /\ call.Description = Get(layer_param, "Description", None)
    /\ call.CompatibleRuntimes = Get(layer_param, "CompatibleRuntimes", None)
    /\ call.LicenseInfo = Get(layer_param, "LicenseInfo", None)

\* C7: a run that returns normally has called publish_layer_version exactly
\* once, with the values of the layer config; with src the content is the
\* inline zip and no HTTP request was made; with packages the content is the
\* bucket and key of the pre-signed URL and no scratch directory or archive
\* was made. A run that raised has not called it, and no run calls it twice.
C7_OnePublishPerRun ==
    /\ Len(publish_calls) <= 1
    /\ pc = "raised" => publish_calls = <<>>
    /\ pc = "done" =>
        /\ Len(publish_calls) = 1
        /\ PassesLayerConfig(publish_calls[1])
        /\ LET content == publish_calls[1].Content IN
           IF src # <<>>
           THEN /\ content.keys = {"ZipFile"}
                /\ zipfile.made
                /\ content.ZipFile = zipfile
                /\ http_log = <<>>
           ELSE /\ content.keys = {"S3Bucket", "S3Key"}
                /\ MadeOf(pre_signedurl, content.S3Bucket, content.S3Key)
                /\ zip_call = "none"
                /\ ~archive_file.made
                /\ disk = [dirs |-> {}, files |-> {}]

C7_Witness ==
    /\ pc = "done"
    /\ src = <<>>
    /\ Len(publish_calls) = 1
    /\ publish_calls[1].Content.S3Bucket = <<"bkt">>
    /\ Len(publish_calls[1].Content.S3Key) > 1

\* the text of url between a prefix and a suffix of known lengths
Between(url, prefix, suffix) ==
    SubSeq(url, Len(prefix) + 1, Len(url) - Len(suffix))

\* C8: the build request is one GET to
\* https://layerzip.higuchi.work/<arch>/<runtime>/<packages>?no-deps=<flag>;
\* <packages> is "Packages" itself when a string, and for a list its
\* elements in order with one "&" between neighbours (a one-element list
\* gives the element); <flag> is "No_deps", or 0 when the field is absent.
C8_BuildRequestUrl ==
    http_log # <<>> =>
        LET config == packages_config
            given == config["Packages"]
            prefix == <<"https:", "/", "/", "layerzip", ".", "higuchi", ".", "work", "/">>
                        \o config["Arch"].s \o <<"/">> \o config["Runtime"].s \o <<"/">>
            suffix == <<"?", "no-deps", "=">>
                        \o (IF "No_deps" \in DOMAIN config
                            THEN FormatInt(config["No_deps"]) ELSE <<"0">>)
            segment == Between(http_log[1], prefix, suffix)
        IN  /\ http_log[1] = prefix \o segment \o suffix
            /\ given.t = "str" => segment = given.s
            /\ given.t = "list" =>
                /\ Len(given.l) = 0 => segment = <<>>
                /\ Len(given.l) = 1 => segment = given.l[1]
                /\ Len(given.l) >= 1 => Split(segment, <<"&">>, -1) = given.l
            /\ \A i \in 2..Len(http_log) : http_log[i] # http_log[1]

C8_Witness ==
    /\ http_log # <<>>
    /\ packages_config["Packages"].t = "list"
    /\ Len(packages_config["Packages"].l) = 3
    /\ packages = <<"numpy", "&", "pandas", "=", "=", "1", "&", "numpy">>
    /\ "No_deps" \in DOMAIN packages_config

\* the directories an archive entry lies below, for a pair of wrap names
WrapSegments(w1, w2) ==
    IF w1 = <<>> /\ w2 = <<>> THEN <<>>
    ELSE IF w1 = <<>> THEN <<w2>>
    ELSE IF w2 = <<>> THEN <<w1>>
    ELSE <<w1, w2>>

\* C9: the archive returned by _create_ziparchive has, for every file at
\* relative path p below the source, an entry {wrap_dir1}/{wrap_dir2}/p,
\* an empty wrap name adding no segment, and has no other file entry.
C9_ArchiveLayout ==
    zipfile.made =>
        zipfile.files = {WrapSegments(wrap_dir1, wrap_dir2) \o p : p \in src_tree}

C9_Witness ==
    /\ zipfile.made
    /\ zip_call = "returned"
    /\ wrap_dir1 = <<"python">>
    /\ wrap_dir2 = <<"lib">>
    /\ << <<"python">>, <<"lib">>, <<"pkg">>, <<"mod", ".", "py">> >> \in zipfile.files

\* C10: the poll loop ends at the first response with status 200; after n
\* other responses the elapsed time is 5*n, the same URL is polled again and
\* neither an error nor a publish has occurred; the packages path publishes
\* only after a 200 poll response; once that response has come the run ends
\* with a publish or with LamblayerCreateLayerError.
C10_PollUntil200 ==
    /\ pc = "poll" =>
        /\ elapsed_time = 5 * (Len(http_log) - 1)
        /\ error = NoError
        /\ publish_calls = <<>>
    /\ pc = "verify" =>
        /\ response.status_code = 200
        /\ elapsed_time = 5 * (Len(http_log) - 2)
    /\ \A i \in 2..Len(http_log) : http_log[i] = pre_signedurl
    /\ (src = <<>> /\ publish_calls # <<>>) =>
        /\ Len(http_log) >= 2
        /\ response.status_code = 200
    /\ (PastVerify /\ pc \in {"raised", "done"}) =>
        \/ pc = "done" /\ Len(publish_calls) = 1
        \/ error.kind = "LamblayerCreateLayerError"

====
